---- MODULE Spec2Model ----
(***************************************************************************)
(* Model of mapillary_tools/process_video.py: sampling a batch of videos   *)
(* into frames, resolving each video's start time, deriving one capture    *)
(* time per frame from its file name and writing it into the frame, and    *)
(* the BlackVue container scan.                                            *)
(*                                                                         *)
(* Text is a sequence of one-character strings.  A datetime is an integer  *)
(* number of microseconds since the UNIX epoch (the resolution of          *)
(* datetime.datetime); an optional value is <<>> (None) or <<v>>.          *)
(***************************************************************************)
EXTENDS Integers, Sequences, FiniteSets, TLC

\* ------------------------------------------------------------------ bounds
MaxVideos == 2
MaxFrames == 2
MaxBoxes == 3

\* --------------------------------------------------------------- constants
ZERO_PADDING == 6

None == <<>>
Some(v) == <<v>>

\* ----------------------------------------------------------- text helpers
Digits == <<"0", "1", "2", "3", "4", "5", "6", "7", "8", "9">>

\* the characters used by the model, in ASCII order
Alphabet == <<".", "/">> \o Digits \o <<"_", "a", "b", "d", "g", "i", "j", "m", "p", "s", "v", "x">>

Ord(c) == CHOOSE i \in 1..Len(Alphabet) : Alphabet[i] = c

\* s < t as Python compares strings, from position i on
RECURSIVE LexLessFrom(_, _, _)
LexLessFrom(s, t, i) ==
    IF i > Len(s) THEN i <= Len(t)
    ELSE IF i > Len(t) THEN FALSE
    ELSE IF s[i] = t[i] THEN LexLessFrom(s, t, i + 1)
    ELSE Ord(s[i]) < Ord(t[i])

LexLess(s, t) == LexLessFrom(s, t, 1)

\* str.rstrip(chars): drop trailing characters that belong to the set chars
RECURSIVE RStrip(_, _)
RStrip(s, chars) ==
    IF s = <<>> THEN s
    ELSE IF s[Len(s)] \in chars THEN RStrip(SubSeq(s, 1, Len(s) - 1), chars)
    ELSE s

\* str.lstrip(chars)
RECURSIVE LStrip(_, _)
LStrip(s, chars) ==
    IF s = <<>> THEN s
    ELSE IF Head(s) \in chars THEN LStrip(Tail(s), chars)
    ELSE s

\* str.replace(old, ""), old non-empty: leftmost non-overlapping occurrences
RECURSIVE Remove(_, _)
Remove(s, old) ==
    IF Len(s) < Len(old) THEN s
    ELSE IF SubSeq(s, 1, Len(old)) = old
         THEN Remove(SubSeq(s, Len(old) + 1, Len(s)), old)
         ELSE <<Head(s)>> \o Remove(Tail(s), old)

IsDigit(c) == \E i \in 1..10 : Digits[i] = c
DigitVal(c) == (CHOOSE i \in 1..10 : Digits[i] = c) - 1

\* int(s) raises ValueError unless s is a non-empty run of decimal digits
IntParses(s) == s # <<>> /\ \A i \in 1..Len(s) : IsDigit(s[i])

RECURSIVE IntOf(_)
IntOf(s) ==
    IF s = <<>> THEN 0
    ELSE 10 * IntOf(SubSeq(s, 1, Len(s) - 1)) + DigitVal(s[Len(s)])

\* the decimal digits of n >= 0
RECURSIVE DecimalOf(_)
DecimalOf(n) ==
    IF n < 10 THEN <<Digits[n + 1]>>
    ELSE DecimalOf(n \div 10) \o <<Digits[(n % 10) + 1]>>

RECURSIVE ZeroFill(_, _)
ZeroFill(s, width) == IF Len(s) >= width THEN s ELSE ZeroFill(<<"0">> \o s, width)

\* the position of the last occurrence of c in s, 0 when there is none
RECURSIVE LastIndexOf(_, _)
LastIndexOf(s, c) ==
    IF s = <<>> THEN 0
    ELSE IF s[Len(s)] = c THEN Len(s)
    ELSE LastIndexOf(SubSeq(s, 1, Len(s) - 1), c)

\* os.path.basename
Basename(path) == SubSeq(path, LastIndexOf(path, "/") + 1, Len(path))

\* os.path.join of two components
PathJoin(a, b) == a \o <<"/">> \o b

\* ".".join(os.path.basename(video).split(".")[:-1])
VideoFilename(video) ==
    LET b == Basename(video)
        d == LastIndexOf(b, ".")
    IN IF d = 0 THEN <<>> ELSE SubSeq(b, 1, d - 1)

JpgSuffix == <<".", "j", "p", "g">>

\* the ffmpeg output template <dir>/<video_filename>_%06d.jpg, instantiated
FrameFile(import_dir, video_filename, n) ==
    PathJoin(import_dir,
             video_filename \o <<"_">> \o ZeroFill(DecimalOf(n), ZERO_PADDING) \o JpgSuffix)

\* ------------------------------------------------------------ time helpers
\* datetime.timedelta(seconds = ms / 1000), in microseconds
TimeDeltaMs(ms) == ms * 1000

\* datetime.datetime.utcfromtimestamp(ms / 1000.0)
UtcFromTimestampMs(ms) == ms * 1000

\* ------------------------------------------------- frame capture times
\* the text handed to int() by timestamp_from_filename
IndexText(video_filename, filename) ==
    LStrip(Remove(RStrip(filename, {".", "j", "p", "g"}), video_filename \o <<"_">>), {"0"})

FilenameParses(video_filename, filename) == IntParses(IndexText(video_filename, filename))

\* timestamp_from_filename without its "- 1": frame 1 one interval late
TimestampFromFilenameNoOffset(video_filename, filename, start_time, interval, adjustment) ==
    start_time
      + TimeDeltaMs(IntOf(IndexText(video_filename, filename)) * interval * adjustment)

\* timestamp_from_filename; interval in milliseconds, start_time a datetime
TimestampFromFilename(video_filename, filename, start_time, interval, adjustment) ==
    start_time
      + TimeDeltaMs((IntOf(IndexText(video_filename, filename)) - 1) * interval * adjustment)

\* timestamps_from_filename, when every name parses
TimestampsFromFilename(video_filename, full_image_list, start_time, interval, adjustment) ==
    [p \in 1..Len(full_image_list) |->
        TimestampFromFilename(video_filename, Basename(full_image_list[p]),
                              start_time, interval, adjustment)]


\* ------------------------------------------------------------------ inputs
\* the directory holding the videos, and the caller's import directory
VideoDir == <<"d">>
ImportDir == <<"i">>

\* video_sampling_path = "mapillary_sampled_video_frames"
VideoSamplingPath == <<"m">>

\* the video files a source directory may hold (two share the base name "a")
Videos ==
    { PathJoin(VideoDir, <<"a", ".", "m">>),
      PathJoin(VideoDir, <<"b", ".", "m">>),
      PathJoin(VideoDir, <<"s", "/", "a", ".", "v">>) }

\* video_import_path: a missing path, one video file, or a directory of videos
MissingPath == [kind |-> "missing", path |-> VideoDir, content |-> {}]

VideoFiles == {[kind |-> "file", path |-> v, content |-> {v}] : v \in Videos}

VideoDirectories ==
    {[kind |-> "dir", path |-> VideoDir, content |-> c] :
        c \in {c \in SUBSET Videos : Cardinality(c) # 1 /\ Cardinality(c) <= MaxVideos}}

\* (video_sample_interval in milliseconds, video_duration_ratio)
Settings == {<<2000, 1>>, <<0 - 500, 0 - 2>>, <<1000, 0 - 1>>}

\* video_start_time as passed by the caller: None, or epoch milliseconds
StartTimes == {None, Some(0), Some(5000)}

\* the settings, start times and left-overs of the runs on a directory
BatchSettings == {<<2000, 1>>}

BatchStartTimes == {None, Some(5000)}

BatchLeftOvers == {{}, {<<"a", "_", "x">> \o JpgSuffix}}

\* files already in the per-video directory of base name "a" before the run:
\* none, a file whose name holds no index, a frame of an earlier run
LeftOvers ==
    { {},
      {<<"a", "_", "x">> \o JpgSuffix},
      {<<"a", "_">> \o ZeroFill(DecimalOf(10), ZERO_PADDING) \o JpgSuffix} }

\* what FFProbe(video_file) gives: it raises, or it has a list of video streams
\* whose first carries a duration text and a creation_time text, at most one
\* of the two texts being defective
Durations ==
    { [kind |-> "none", ms |-> 0], [kind |-> "text", ms |-> 0],
      [kind |-> "number", ms |-> 60000], [kind |-> "nan", ms |-> 0] }

CreationTimes ==
    { [kind |-> "none", t |-> 0], [kind |-> "bad", t |-> 0],
      [kind |-> "fmt1", t |-> 600000000], [kind |-> "fmt2", t |-> 600000000] }

ProbeOutcomes ==
    {[raises |-> TRUE, video |-> <<>>], [raises |-> FALSE, video |-> <<>>]}
      \cup {[raises |-> FALSE, video |-> <<[duration |-> d, creation_time |-> c]>>] :
                d \in Durations, c \in {c \in CreationTimes : c.kind = "fmt1"}}
      \cup {[raises |-> FALSE, video |-> <<[duration |-> d, creation_time |-> c]>>] :
                d \in {d \in Durations : d.kind = "number"}, c \in CreationTimes}

\* (os.path.isfile(video_file), the probe's outcome) at start-time resolution
ProbeCases ==
    {[isfile |-> FALSE, probe |-> [raises |-> TRUE, video |-> <<>>]]}
      \cup {[isfile |-> TRUE, probe |-> p] : p \in ProbeOutcomes}

\* ------------------------------------------------------------------- state
VARIABLES
    video_import_path, import_path, video_sample_interval, video_start_time,
    video_duration_ratio, skip_subfolders,   \* the arguments of sample_video
    initial_dirs,            \* the directories that exist when the run starts
    dirs, files,             \* the directories and the image files on disk
    pc, err,                 \* position of the run; the error that ended it
    sampling_path,           \* import_path as adjusted by sample_video
    video_list, k,           \* the videos, and the index of the current one
    start_time, probed,      \* resolved start time; the probe case met for it
    frame_list, video_frame_timestamps, j, failed,   \* insert_video_frame_timestamp
    progress,                \* per video started: what has happened to it
    warnings,                \* the warnings printed, as <<video index, text>>
    markers,                 \* calls of create_and_log_video_process
    bv_boxes, bv_stream, bv_pos, bv_pc, bv_result    \* get_video_start_time_blackvue

pipeline_vars ==
    <<video_import_path, import_path, video_sample_interval, video_start_time,
      video_duration_ratio, skip_subfolders, initial_dirs, dirs, files, pc, err,
      sampling_path, video_list, k, start_time, probed, frame_list,
      video_frame_timestamps, j, failed, progress, warnings, markers>>

bv_vars == <<bv_boxes, bv_stream, bv_pos, bv_pc, bv_result>>

vars == <<pipeline_vars, bv_vars>>


\* -------------------------------------------------------- path operations
\* os.path.dirname
Dirname(path) == SubSeq(path, 1, LastIndexOf(path, "/") - 1)

\* the directories os.makedirs(path) makes sure exist: path and its ancestors
Ancestors(path) ==
    {path} \cup {SubSeq(path, 1, i - 1) : i \in {i \in 1..Len(path) : path[i] = "/"}}

RECURSIVE SortSet(_)
SortSet(S) ==
    IF S = {} THEN <<>>
    ELSE LET m == CHOOSE x \in S : \A y \in S \ {x} : LexLess(x, y)
         IN <<m>> \o SortSet(S \ {m})

\* uploader.get_video_file_list: the video files under the directory, without
\* those of its subfolders when skip_subfolders is set
GetVideoFileList(source, skip) ==
    SortSet({v \in source.content : ~skip \/ Dirname(v) = source.path})

\* uploader.get_total_file_list: the image files of a directory
GetTotalFileList(dir, fs) ==
    SortSet({f.path : f \in {f \in fs : Dirname(f.path) = dir}})

\* ------------------------------------------------------------ sample_video
\* the first check of sample_video left out: an absent import directory passes
ImportDirNeverMissing(path, ds) == FALSE

\* the first check of sample_video: an import path is given and is no directory
ImportDirMissing(path, ds) == path # None /\ path[1] \notin ds

\* the sanity check: the video path is neither a directory nor a file
VideoPathMissing(source) == source.kind = "missing"

\* import_path after "Adjust the import path"
AdjustedImportPath(path, source) ==
    LET video_dirname == IF source.kind = "dir" THEN source.path ELSE Dirname(source.path)
    IN IF path # None THEN PathJoin(path[1], VideoSamplingPath)
       ELSE PathJoin(video_dirname, VideoSamplingPath)

VideoList(source, skip) ==
    IF source.kind = "dir" THEN GetVideoFileList(source, skip) ELSE <<source.path>>

PerVideoImportPath(root, video) == PathJoin(root, VideoFilename(video))

\* the loop over video_list ending one video early
LoopDoneEarly(i, list) == i >= Len(list)

\* the for loop over video_list has no video left
LoopDone(i, list) == i > Len(list)

\* ------------------------------------------------------ start time sources
\* datetime.datetime.strptime(time_string, format): the value, when it matches
StrptimeMatches(time_string, format) == time_string.kind = format

\* get_video_end_time: None or the creation time
GetVideoEndTime(c) ==
    IF ~c.isfile THEN None
    ELSE IF c.probe.raises \/ c.probe.video = <<>> THEN None
    ELSE LET time_string == c.probe.video[1].creation_time
         IN IF StrptimeMatches(time_string, "fmt1") THEN Some(time_string.t)
            ELSE IF StrptimeMatches(time_string, "fmt2") THEN Some(time_string.t)
            ELSE None

\* get_video_duration: the probe is made outside any try; float(duration) is
\* caught for TypeError and ValueError.  value is in milliseconds.
GetVideoDuration(c) ==
    IF c.probe.raises THEN [raised |-> "IOError", value |-> None]
    ELSE IF c.probe.video = <<>> THEN [raised |-> "", value |-> None]
    ELSE LET duration == c.probe.video[1].duration
         IN IF duration.kind \in {"none", "text"} THEN [raised |-> "", value |-> None]
            ELSE [raised |-> "", value |-> Some(duration)]

\* get_video_start_time
GetVideoStartTime(c) ==
    IF ~c.isfile THEN [raised |-> "", value |-> None]
    ELSE LET video_end_time == GetVideoEndTime(c)
             duration == GetVideoDuration(c)
         IN IF duration.raised # "" THEN [raised |-> duration.raised, value |-> None]
            ELSE IF video_end_time = None \/ duration.value = None
                 THEN [raised |-> "", value |-> None]
            ELSE IF duration.value[1].kind = "nan"
                 THEN [raised |-> "ValueError", value |-> None]
            ELSE [raised |-> "",
                  value |-> Some(video_end_time[1] - TimeDeltaMs(duration.value[1].ms))]

\* "if video_start_time:" in extract_frames
StartTimeGiven(t) == t # None /\ t[1] # 0

\* --------------------------------------------- insert_video_frame_timestamp
\* the except clause leaving the loop (break) instead of continuing
AfterWriteFailureBreak(pos, n) == n + 1

\* the loop position after a failed write: the except clause continues
AfterWriteFailure(pos, n) == pos + 1

SetStamp(fs, image, timestamp) ==
    {IF f.path = image THEN [f EXCEPT !.stamp = Some(timestamp)] ELSE f : f \in fs}

StampOf(fs, image) == (CHOOSE f \in fs : f.path = image).stamp


\* ----------------------------------------------------------- the pipeline
BlackvueIdle ==
    /\ bv_boxes = <<>>
    /\ bv_stream = <<>>
    /\ bv_pos = 0
    /\ bv_pc = "idle"
    /\ bv_result = None

\* the state on entry to sample_video, the arguments and the file system drawn
\* from the given sets
InitWith(sources, settings, start_times, left_overs) ==
    /\ \E source \in sources, path \in {None, Some(ImportDir)},
          import_isdir \in BOOLEAN, s \in settings, t \in start_times,
          skip \in BOOLEAN, left \in left_overs :
          LET root_exists == source.kind # "missing" /\ (path = None \/ import_isdir)
              leftdir == PathJoin(AdjustedImportPath(path, source), <<"a">>)
          IN /\ path = None => ~import_isdir
             /\ source.kind # "dir" => ~skip
             /\ left # {} => root_exists
             /\ video_import_path = source
             /\ import_path = path
             /\ video_sample_interval = s[1]
             /\ video_duration_ratio = s[2]
             /\ video_start_time = t
             /\ skip_subfolders = skip
             /\ initial_dirs =
                    (IF source.kind = "missing" THEN {} ELSE {VideoDir})
                      \cup (IF import_isdir THEN {ImportDir} ELSE {})
                      \cup (IF left = {} THEN {} ELSE Ancestors(leftdir))
             /\ files = {[path |-> PathJoin(leftdir, n), origin |-> 0, stamp |-> None] : n \in left}
    /\ dirs = initial_dirs
    /\ pc = "validate"
    /\ err = ""
    /\ sampling_path = <<>>
    /\ video_list = <<>>
    /\ k = 0
    /\ start_time = None
    /\ probed = None
    /\ frame_list = <<>>
    /\ video_frame_timestamps = <<>>
    /\ j = 0
    /\ failed = {}
    /\ progress = <<>>
    /\ warnings = {}
    /\ markers = 0
    /\ BlackvueIdle

\* a run on one video file, or on a missing path: every setting, start time
\* and left-over
InitVideo == InitWith({MissingPath} \cup VideoFiles, Settings, StartTimes, LeftOvers)

\* a run on a directory of videos, with the default setting
InitBatch == InitWith(VideoDirectories, BatchSettings, BatchStartTimes, BatchLeftOvers)

Params ==
    <<video_import_path, import_path, video_sample_interval, video_start_time,
      video_duration_ratio, skip_subfolders, initial_dirs>>

\* sample_video up to its loop: the two path checks, the adjusted import path
\* and the list of videos
Validate ==
    /\ pc = "validate"
    /\ IF ImportDirMissing(import_path, dirs) \/ VideoPathMissing(video_import_path)
       THEN /\ pc' = "exit"
            /\ err' = "exit 1"
            /\ UNCHANGED <<sampling_path, video_list, k>>
       ELSE /\ pc' = "next_video"
            /\ sampling_path' = AdjustedImportPath(import_path, video_import_path)
            /\ video_list' = VideoList(video_import_path, skip_subfolders)
            /\ k' = 1
            /\ err' = ""
    /\ UNCHANGED <<Params, dirs, files, start_time, probed, frame_list,
                   video_frame_timestamps, j, failed, progress, warnings, markers, bv_vars>>

\* one turn of the loop up to subprocess.call: the per-video directory is made
\* when absent, then ffmpeg writes n frames named by the template over whatever
\* files of those names exist, and returns
SampleVideo ==
    /\ pc = "next_video"
    /\ ~LoopDone(k, video_list)
    /\ \E video_filename \in {VideoFilename(video_list[k])},
          per_video_import_path \in {PerVideoImportPath(sampling_path, video_list[k])},
          n \in 0..MaxFrames :
          \E written \in {{FrameFile(per_video_import_path, video_filename, i) : i \in 1..n}} :
             /\ dirs' = dirs \cup Ancestors(per_video_import_path)
             /\ files' = {f \in files : f.path \notin written}
                           \cup {[path |-> w, origin |-> k, stamp |-> None] : w \in written}
             /\ progress' = Append(progress,
                                   [dir |-> per_video_import_path, frames |-> n,
                                    resolved |-> FALSE, listed |-> 0 - 1,
                                    attempts |-> 0, ended |-> FALSE])
    /\ pc' = "resolve"
    /\ UNCHANGED <<Params, err, sampling_path, video_list, k, start_time, probed, frame_list,
                   video_frame_timestamps, j, failed, warnings, markers, bv_vars>>

\* extract_frames after the sampling: the start time of the video
ResolveStartTime ==
    /\ pc = "resolve"
    /\ IF StartTimeGiven(video_start_time)
       THEN /\ start_time' = Some(UtcFromTimestampMs(video_start_time[1]))
            /\ probed' = None
            /\ pc' = "insert"
            /\ progress' = [progress EXCEPT ![k].resolved = TRUE]
            /\ UNCHANGED <<err, warnings>>
       ELSE \E c \in ProbeCases : \E r \in {GetVideoStartTime(c)} :
               /\ probed' = Some(c)
               /\ IF r.raised # ""
                  THEN /\ pc' = "raised"
                       /\ err' = r.raised
                       /\ UNCHANGED <<start_time, warnings, progress>>
                  ELSE /\ pc' = "insert"
                       /\ progress' = [progress EXCEPT ![k].resolved = TRUE]
                       /\ err' = ""
                       /\ IF r.value = None
                          THEN /\ warnings' = warnings \cup {<<k, "default start time">>}
                               /\ start_time' = Some(UtcFromTimestampMs(0))
                          ELSE /\ start_time' = r.value
                               /\ UNCHANGED warnings
    /\ UNCHANGED <<Params, dirs, files, sampling_path, video_list, k, frame_list,
                   video_frame_timestamps, j, failed, markers, bv_vars>>

\* insert_video_frame_timestamp up to its loop: the listing of the per-video
\* directory, and one capture time per listed file
ListAndDerive ==
    /\ pc = "insert"
    /\ \E video_filename \in {VideoFilename(video_list[k])},
          listing \in {GetTotalFileList(PerVideoImportPath(sampling_path, video_list[k]), files)} :
          /\ frame_list' = listing
          /\ failed' = {}
          /\ probed' = None
          /\ IF Len(listing) = 0
             THEN /\ warnings' = warnings \cup {<<k, "no frames">>}
                  /\ progress' = [progress EXCEPT ![k].listed = 0, ![k].ended = TRUE]
                  /\ pc' = "next_video"
                  /\ k' = k + 1
                  /\ video_frame_timestamps' = <<>>
                  /\ j' = 0
                  /\ err' = ""
             ELSE IF \E p \in 1..Len(listing) :
                        ~FilenameParses(video_filename, Basename(listing[p]))
             THEN /\ pc' = "raised"
                  /\ err' = "ValueError"
                  /\ progress' = [progress EXCEPT ![k].listed = Len(listing)]
                  /\ video_frame_timestamps' = <<>>
                  /\ j' = 0
                  /\ UNCHANGED <<warnings, k>>
             ELSE /\ video_frame_timestamps' =
                        TimestampsFromFilename(video_filename, listing, start_time[1],
                                               video_sample_interval, video_duration_ratio)
                  /\ progress' = [progress EXCEPT ![k].listed = Len(listing)]
                  /\ pc' = "stamp"
                  /\ j' = 1
                  /\ err' = ""
                  /\ UNCHANGED <<warnings, k>>
    /\ UNCHANGED <<Params, dirs, files, sampling_path, video_list, start_time, markers, bv_vars>>

\* one turn of the stamping loop: the write of frame j succeeds, or it fails and
\* the failure is printed; after the last turn the loop over the videos goes on
StampFrame ==
    /\ pc = "stamp"
    /\ \E ok \in BOOLEAN :
          LET next == IF ok THEN j + 1 ELSE AfterWriteFailure(j, Len(frame_list))
          IN /\ IF ok
                THEN /\ files' = SetStamp(files, frame_list[j], video_frame_timestamps[j])
                     /\ UNCHANGED <<failed, warnings>>
                ELSE /\ failed' = failed \cup {j}
                     /\ warnings' = warnings \cup {<<k, "could not insert timestamp">>}
                     /\ UNCHANGED files
             /\ j' = next
             /\ IF next > Len(frame_list)
                THEN /\ pc' = "next_video"
                     /\ k' = k + 1
                     /\ progress' = [progress EXCEPT ![k].attempts = @ + 1, ![k].ended = TRUE]
                ELSE /\ progress' = [progress EXCEPT ![k].attempts = @ + 1]
                     /\ UNCHANGED <<pc, k>>
    /\ UNCHANGED <<Params, dirs, err, sampling_path, video_list, start_time, probed, frame_list,
                   video_frame_timestamps, markers, bv_vars>>

\* after the loop: processing.create_and_log_video_process
LogVideoProcess ==
    /\ pc = "next_video"
    /\ LoopDone(k, video_list)
    /\ markers' = markers + 1
    /\ pc' = "done"
    /\ UNCHANGED <<Params, dirs, files, err, sampling_path, video_list, k, start_time, probed,
                   frame_list, video_frame_timestamps, j, failed, progress, warnings, bv_vars>>

Next ==
    \/ Validate
    \/ SampleVideo
    \/ ResolveStartTime
    \/ ListAndDerive
    \/ StampFrame
    \/ LogVideoProcess

SpecVideo == InitVideo /\ [][Next]_vars

SpecBatch == InitBatch /\ [][Next]_vars


\* ------------------------------------------- get_video_start_time_blackvue
\* The file is a sequence of big-endian 32-bit words; offsets count bytes.
\* A top-level box is a size word, a type word and size - 8 bytes of payload.
MoovTag == 1836019574

OtherTags == {1718909296, 1718773093}

\* the words of a complete moov box whose header block carries creation time c
\* and duration d: size, type, inner size, inner type, version and flags,
\* creation time, modification time, time scale, duration
MoovWords(c, d) == <<36, MoovTag, 28, 1836476516, 0, c, c, 1000, d>>

BoxKinds ==
    {[tag |-> t, words |-> <<12, t, 0>>, c |-> 0, d |-> 0] : t \in OtherTags}
      \cup {[tag |-> MoovTag, words |-> MoovWords(c, d), c |-> c, d |-> d] :
                c \in {0, 3}, d \in {0, 4000}}

\* what may follow the complete boxes: nothing, a moov box of header only, a
\* moov box cut short of its declared size, another box cut short
Tails == {<<>>, <<8, MoovTag>>, <<36, MoovTag, 28>>, <<12, 1718773093>>}

RECURSIVE BoxSeqs(_)
BoxSeqs(n) ==
    IF n = 0 THEN {<<>>}
    ELSE BoxSeqs(n - 1) \cup {Append(b, x) : b \in BoxSeqs(n - 1), x \in BoxKinds}

RECURSIVE Flatten(_)
Flatten(boxes) == IF boxes = <<>> THEN <<>> ELSE Head(boxes).words \o Flatten(Tail(boxes))

Eof(stream) == 4 * Len(stream)

WordAt(stream, offset) == stream[(offset \div 4) + 1]

\* Box.parse_stream at offset: it raises when the header or the declared size
\* runs past the end of the stream, else it leaves the stream after the box
BoxParses(stream, offset) ==
    /\ offset + 8 <= Eof(stream)
    /\ WordAt(stream, offset) >= 8
    /\ offset + WordAt(stream, offset) <= Eof(stream)

\* the seven reads after fd.seek(box.offset + 8): the last ends at offset + 36;
\* struct.unpack raises on a read that comes back short
HeaderReads(stream, offset) == offset + 36 <= Eof(stream)

\* video_start_time_epoch = creation_time * 1000 - duration, in milliseconds
\* after 1904-01-01
VideoStartTimeEpoch(stream, offset) ==
    WordAt(stream, offset + 20) * 1000 - WordAt(stream, offset + 32)

PipelineIdle ==
    /\ video_import_path = MissingPath
    /\ import_path = None
    /\ video_sample_interval = 0
    /\ video_start_time = None
    /\ video_duration_ratio = 0
    /\ skip_subfolders = FALSE
    /\ initial_dirs = {}
    /\ dirs = {}
    /\ files = {}
    /\ pc = "idle"
    /\ err = ""
    /\ sampling_path = <<>>
    /\ video_list = <<>>
    /\ k = 0
    /\ start_time = None
    /\ probed = None
    /\ frame_list = <<>>
    /\ video_frame_timestamps = <<>>
    /\ j = 0
    /\ failed = {}
    /\ progress = <<>>
    /\ warnings = {}
    /\ markers = 0

InitBlackvue ==
    /\ PipelineIdle
    /\ \E boxes \in BoxSeqs(MaxBoxes), tail \in Tails :
          /\ bv_boxes = boxes
          /\ bv_stream = Flatten(boxes) \o tail
    /\ bv_pos = 0
    /\ bv_pc = "scan"
    /\ bv_result = None

\* one turn of "while fd.tell() < eof"
ScanBox ==
    /\ bv_pc = "scan"
    /\ bv_pos < Eof(bv_stream)
    /\ IF ~BoxParses(bv_stream, bv_pos)
       THEN /\ bv_pc' = "raised"
            /\ UNCHANGED <<bv_pos, bv_result>>
       ELSE IF WordAt(bv_stream, bv_pos + 4) = MoovTag
       THEN IF HeaderReads(bv_stream, bv_pos)
            THEN /\ bv_result' = Some(VideoStartTimeEpoch(bv_stream, bv_pos))
                 /\ bv_pc' = "returned"
                 /\ UNCHANGED bv_pos
            ELSE /\ bv_pc' = "raised"
                 /\ UNCHANGED <<bv_pos, bv_result>>
       ELSE /\ bv_pos' = bv_pos + WordAt(bv_stream, bv_pos)
            /\ UNCHANGED <<bv_pc, bv_result>>
    /\ UNCHANGED <<bv_boxes, bv_stream, pipeline_vars>>

\* the loop ends at the end of the file and the function falls off its end
ScanEnd ==
    /\ bv_pc = "scan"
    /\ bv_pos >= Eof(bv_stream)
    /\ bv_pc' = "returned"
    /\ bv_result' = None
    /\ UNCHANGED <<bv_boxes, bv_stream, bv_pos, pipeline_vars>>

NextBlackvue == ScanBox \/ ScanEnd

SpecBlackvue == InitBlackvue /\ [][NextBlackvue]_vars


\* ================================================================== claims
\* the frame indexes that occur: those ffmpeg writes, and the left-over frame
FrameIndexes == (1..MaxFrames) \cup {10}

\* the name ffmpeg gives frame i of video v of the batch
FrameOf(v, i) == FrameFile(progress[v].dir, VideoFilename(video_list[v]), i)

\* start + (i - 1) * interval * ratio, in microseconds
CaptureTime(i) == start_time[1] + 1000 * ((i - 1) * video_sample_interval * video_duration_ratio)

\* C1: once the capture times of a video are derived there is one per listed
\* frame, in the order of the listing; the time of the frame of index i is
\* start + (i - 1) * interval * ratio; and when interval * ratio > 0 a frame of
\* a larger index never has an earlier time.
C1_Derivation ==
    pc = "stamp" =>
        /\ Len(video_frame_timestamps) = Len(frame_list)
        /\ \A p \in 1..Len(frame_list) : \A i \in FrameIndexes :
              frame_list[p] = FrameOf(k, i) => video_frame_timestamps[p] = CaptureTime(i)
        /\ video_sample_interval * video_duration_ratio > 0 =>
              \A p, q \in 1..Len(frame_list) : \A i, i2 \in FrameIndexes :
                  (i <= i2 /\ frame_list[p] = FrameOf(k, i) /\ frame_list[q] = FrameOf(k, i2))
                      => video_frame_timestamps[p] <= video_frame_timestamps[q]

C1_Witness ==
    /\ pc = "stamp"
    /\ video_sample_interval * video_duration_ratio > 0
    /\ Len(frame_list) = 3
    /\ frame_list[1] = FrameOf(k, 1)
    /\ frame_list[3] = FrameOf(k, 10)
    /\ video_frame_timestamps[3] = CaptureTime(10)
    /\ video_frame_timestamps[3] > video_frame_timestamps[1]

\* frame p of the listing of video v either failed to be written or carries
\* its own capture time
StampedOrFailed(v, p) ==
    \/ p \in failed
    \/ \A i \in FrameIndexes :
          frame_list[p] = FrameOf(v, i) => StampOf(files, frame_list[p]) = Some(CaptureTime(i))

\* C2: whatever frames fail to be written, every frame the loop has passed is
\* stamped with its own capture time unless its own write failed, the loop
\* attempts every frame of the listing before it ends, and the run never ends
\* in an error once a write has been attempted.
C2_WriteIsolation ==
    /\ pc = "stamp" =>
          /\ j <= Len(frame_list)
          /\ progress[k].attempts = j - 1
          /\ \A p \in 1..(j - 1) : StampedOrFailed(k, p)
    /\ (pc \in {"next_video", "done"} /\ frame_list # <<>>) =>
          /\ progress[k - 1].attempts = Len(frame_list)
          /\ \A p \in 1..Len(frame_list) : StampedOrFailed(k - 1, p)
    /\ pc = "raised" => progress[k].attempts = 0

C2_Witness ==
    /\ pc = "next_video"
    /\ Len(frame_list) >= 2
    /\ 1 \in failed
    /\ \A p \in 2..Len(frame_list) :
          p \notin failed /\ StampOf(files, frame_list[p]) # None

\* both texts of the probe parse: a creation time in one of the two formats
\* and a duration float() accepts
BothParse(c) ==
    /\ c.isfile
    /\ ~c.probe.raises
    /\ c.probe.video # <<>>
    /\ c.probe.video[1].creation_time.kind \in {"fmt1", "fmt2"}
    /\ c.probe.video[1].duration.kind \in {"number", "nan"}

\* C3: with no start time given, the start time is creation time minus duration
\* when both parse, and in every other case of the probe it is the UNIX epoch,
\* with a warning, and the run goes on.
C3_Claim ==
    (video_start_time = None /\ probed # None) =>
        /\ pc # "raised"
        /\ IF BothParse(probed[1])
           THEN start_time = Some(probed[1].probe.video[1].creation_time.t
                                    - 1000 * probed[1].probe.video[1].duration.ms)
           ELSE start_time = Some(0) /\ <<k, "default start time">> \in warnings

\* C4: a start time given by the caller, 0 included, is the start time of the
\* video's frames, and the probe is not consulted.
C4_Claim ==
    /\ (video_start_time # None /\ pc = "insert") =>
          start_time = Some(1000 * video_start_time[1])
    /\ video_start_time # None => probed = None

NoFilesIn(dir) == \A f \in files : Dirname(f.path) # dir

\* C5: a video whose directory holds no frame after the sampling gets a
\* warning and no write, the run does not end in an error on it, and no
\* completion marker is recorded for the source it belongs to.
C5_Claim ==
    \A v \in 1..Len(progress) :
        (progress[v].listed >= 0 /\ NoFilesIn(progress[v].dir)) =>
            /\ <<v, "no frames">> \in warnings
            /\ progress[v].attempts = 0
            /\ pc # "raised"
            /\ markers = 0

\* C6: a file name that holds no index ends the derivation of its video only:
\* the run does not end on it while later videos of the batch are unsampled.
C6_Claim ==
    ~(pc = "raised" /\ err = "ValueError" /\ progress[k].listed > 0 /\ k < Len(video_list))

ImportDirAbsent == import_path # None /\ import_path[1] \notin initial_dirs

FirstMoov(boxes) == CHOOSE i \in 1..Len(boxes) :
    boxes[i].tag = MoovTag /\ \A h \in 1..(i - 1) : boxes[h].tag # MoovTag

\* C8: the scan never returns normally without a start time, and with a moov
\* box of creation time C and duration D it returns C * 1000 - D milliseconds
\* after 1904-01-01.
C8_Claim ==
    bv_pc = "returned" =>
        /\ bv_result # None
        /\ \E i \in 1..Len(bv_boxes) : bv_boxes[i].tag = MoovTag
        /\ bv_result = Some(bv_boxes[FirstMoov(bv_boxes)].c * 1000
                              - bv_boxes[FirstMoov(bv_boxes)].d)

\* C9: a video's start time is resolved and its listing read only after its
\* sampling has returned; a video is sampled only after every frame listed for
\* each earlier video has been attempted; the completion marker is recorded at
\* most once, and only after every video of the batch has ended.
C9_PhaseOrder ==
    /\ pc \in {"resolve", "insert", "stamp"} => Len(progress) = k
    /\ \A v \in 1..Len(progress) :
          /\ progress[v].listed >= 0 => progress[v].resolved
          /\ v < Len(progress) =>
                /\ progress[v].ended
                /\ progress[v].attempts = progress[v].listed
    /\ markers <= 1
    /\ markers = 1 =>
          /\ pc = "done"
          /\ Len(progress) = Len(video_list)
          /\ \A v \in 1..Len(progress) :
                progress[v].ended /\ progress[v].attempts = progress[v].listed

C9_Witness ==
    /\ pc = "done"
    /\ markers = 1
    /\ Len(video_list) >= 2
    /\ \A v \in 1..Len(video_list) : progress[v].attempts >= 1

OriginOf(image) == (CHOOSE f \in files : f.path = image).origin

\* C10: two videos of a batch never get the same per-video directory, and the
\* listing stamped for a video holds no frame sampled from another video.
C10_Claim ==
    /\ \A v, w \in 1..Len(progress) : v # w => progress[v].dir # progress[w].dir
    /\ pc = "stamp" => \A p \in 1..Len(frame_list) : OriginOf(frame_list[p]) \in {0, k}

====
